---- MODULE Spec2Model ----
(***************************************************************************)
(* Badminton smash analysis: the DTW sequence aligner, the impact-frame    *)
(* selection and the rule-based feedback/score of compute_similarity.py.   *)
(*                                                                         *)
(* Numbers are fixed-point integers.  Keypoint coordinates are lattice     *)
(* points chosen so that every Euclidean distance between two frames of    *)
(* the model is an integer; angles are in tenths of a degree; wrist height *)
(* and arm extension are in thousandths of the normalised unit (0.05 is    *)
(* 50), the resolutions at which the feedback prints them.                 *)
(***************************************************************************)
EXTENDS Integers, Sequences, FiniteSets, TLC

VARIABLES
    user_seq,        \* compare_motion_sequences: first argument
    reference_seq,   \* compare_motion_sequences: second argument
    dtw_matrix,      \* (n+1) x (m+1) cost matrix
    i, j,            \* loop indices of the fill loops, then of the backtrace
    distance,        \* <<>> while unassigned, <<d>> once line 102 ran
    path,            \* the alignment path being built
    pc,              \* position inside compare_motion_sequences
    user_analysis,   \* main: analysis rows of the user video
    best_ref_analysis, \* main: analysis rows of the best reference
    user_impact_idx, \* main: <<>> or <<idx>>
    ref_impact_idx,  \* main: <<>> or <<idx>>
    user_impact,     \* impact row of the user
    ref_impact,      \* impact row of the reference
    feedback,        \* generate_detailed_feedback: the messages appended so far
    score,           \* <<>> while unassigned, <<s>> once computed
    fpc,             \* position inside main / generate_detailed_feedback
    values,          \* main: the three reference ids read from form_scores.csv
    dists,           \* main: dist_114, dist_135, dist_148
    best_ref_id,     \* main: <<>> or <<id>>
    spc,             \* position inside the best-reference selection
    p1, p2, p3,      \* calculate_angle: arguments
    cos_angle,       \* calculate_angle: <<>> or <<the computed cosine>>
    angle,           \* calculate_angle: <<>> or <<the value returned>>
    apc,             \* position inside calculate_angle
    df,              \* the rows of combined_normalized_data.csv
    shot_id,         \* get_sequence / analyze_key_poses: argument
    fn,              \* which of the two loaders is called
    shot_df,         \* the rows of the shot, sorted by frame_count
    analysis,        \* analyze_key_poses: the rows appended so far
    returned,        \* <<>> or <<the value returned by the loader>>
    lpc,             \* position inside the loader
    df_normalized,   \* normalize_coordinates: the copy being normalised
    video_ids,       \* normalize_coordinates: ids the loop has still to visit
    npc,             \* position inside normalize_coordinates
    csv_data,        \* main: contents of combined_normalized_data.csv
    aligner_calls,   \* main: calls of compare_motion_sequences, per reference
    selected,        \* main: << best_ref_id >> once line 153 has run
    mpc,             \* position inside main
    video,           \* extract_keypoints: the frames cap.read() delivers
    keypoints_data,  \* extract_keypoints: the rows emitted so far
    frame_count,     \* extract_keypoints: the frame counter
    frames_processed, \* extract_keypoints: frames read so far
    df_user,         \* extract_keypoints: the table written to the CSV
    epc,             \* position inside extract_keypoints
    pipeline_env,    \* backend/main.py: what the file system and the scripts will do
    scripts_run,     \* backend/main.py: the scripts subprocess.run was called on
    http_response,   \* backend/main.py: << response >> once the request is answered
    ppc,             \* position inside analyze_smash_video
    processing_state, \* src/main.py: the global status and error
    background_tasks, \* src/main.py: the process_video tasks, by upload
    response         \* src/main.py: << response >> to the latest request

vars == << user_seq, reference_seq, dtw_matrix, i, j, distance, path, pc,
           user_analysis, best_ref_analysis, user_impact_idx, ref_impact_idx,
           user_impact, ref_impact, feedback, score, fpc,
           values, dists, best_ref_id, spc,
           p1, p2, p3, cos_angle, angle, apc,
           df, shot_id, fn, shot_df, analysis, returned, lpc,
           df_normalized, video_ids, npc,
           csv_data, aligner_calls, selected, mpc,
           video, keypoints_data, frame_count, frames_processed, df_user, epc,
           pipeline_env, scripts_run, http_response, ppc,
           processing_state, background_tasks, response >>

dtwVars == << user_seq, reference_seq, dtw_matrix, i, j, distance, path, pc >>
impactVars == << user_analysis, best_ref_analysis, user_impact_idx, ref_impact_idx >>
feedbackVars == << user_impact, ref_impact, feedback, score, fpc >>
coreVars == << dtwVars, impactVars, feedbackVars >>
selectVars == << values, dists, best_ref_id, spc >>

\* The variables of the other parts of the program, which the aligner, the
\* impact selection and the feedback leave alone.
angleVars == << p1, p2, p3, cos_angle, angle, apc >>
loadVars == << df, shot_id, fn, shot_df, analysis, returned, lpc >>
normVars == << df_normalized, video_ids, npc >>
mainVars == << csv_data, aligner_calls, selected, mpc >>
extractVars == << video, keypoints_data, frame_count, frames_processed, df_user, epc >>
pipelineVars == << pipeline_env, scripts_run, http_response, ppc >>
serverVars == << processing_state, background_tasks, response >>
extraVars ==
    << selectVars, angleVars, loadVars, normVars, mainVars, extractVars, pipelineVars,
       serverVars >>

IdleSelect ==
    /\ values = << >> /\ dists = << >> /\ best_ref_id = << >> /\ spc = "idle"

IdleAngle ==
    /\ p1 = << >> /\ p2 = << >> /\ p3 = << >>
    /\ cos_angle = << >> /\ angle = << >> /\ apc = "idle"

IdleLoad ==
    /\ df = << >> /\ shot_id = << >> /\ fn = "none" /\ shot_df = << >>
    /\ analysis = << >> /\ returned = << >> /\ lpc = "idle"

IdleNorm == df_normalized = << >> /\ video_ids = << >> /\ npc = "idle"

IdleMain ==
    /\ csv_data = << >> /\ aligner_calls = << >> /\ selected = << >> /\ mpc = "idle"

IdleExtract ==
    /\ video = << >> /\ keypoints_data = << >> /\ frame_count = 0
    /\ frames_processed = 0 /\ df_user = << >> /\ epc = "idle"

IdlePipeline ==
    /\ pipeline_env = << >> /\ scripts_run = << >> /\ http_response = << >> /\ ppc = "idle"

IdleServer == processing_state = << >> /\ background_tasks = << >> /\ response = << >>

IdleExtra ==
    /\ IdleSelect /\ IdleAngle /\ IdleLoad /\ IdleNorm /\ IdleMain /\ IdleExtract
    /\ IdlePipeline /\ IdleServer

otherThanSelect == << coreVars, angleVars, loadVars, normVars, mainVars, extractVars, pipelineVars,
    serverVars >>
otherThanAngle == << coreVars, selectVars, loadVars, normVars, mainVars, extractVars, pipelineVars,
    serverVars >>
otherThanLoad == << coreVars, selectVars, angleVars, normVars, mainVars, extractVars, pipelineVars,
    serverVars >>
otherThanNorm == << coreVars, selectVars, angleVars, loadVars, mainVars, extractVars, pipelineVars,
    serverVars >>
otherThanMain == << coreVars, selectVars, angleVars, loadVars, normVars, extractVars, pipelineVars,
    serverVars >>
otherThanExtract == << coreVars, selectVars, angleVars, loadVars, normVars, mainVars, pipelineVars,
    serverVars >>
otherThanServer ==
    << coreVars, selectVars, angleVars, loadVars, normVars, mainVars, extractVars,
       pipelineVars >>
otherThanPipeline == << coreVars, selectVars, angleVars, loadVars, normVars, mainVars, extractVars,
    serverVars >>

\* ------------------------------------------------------------------ bounds
\* Longest motion sequence handed to the aligner.
MaxLen == 3
\* Longest analysis table handed to the impact-frame selection.
MaxRows == 3
\* Most rows in the data file read by the loaders.
MaxDfRows == 2
\* Most rows in the table handed to normalize_coordinates.
MaxNormRows == 2
\* Most frames in the video handed to extract_keypoints.
MaxFrames == 3
\* Most uploads the server accepts, each with its process_video task.
MaxTasks == 2

\* ------------------------------------------------------- numeric helpers
\* np.inf: larger than every number, inf + x = inf, inf == inf.
Inf == -1

Lt(a, b) == IF a = Inf THEN FALSE ELSE IF b = Inf THEN TRUE ELSE a < b

Add(c, x) == IF x = Inf THEN Inf ELSE c + x

Abs(x) == IF x < 0 THEN -x ELSE x

\* builtin min(a, b, c) on numbers: the first minimal argument.
Min3NoDiagonal(a, b, c) == IF Lt(b, a) THEN b ELSE a
Min3NoLeft(a, b, c) == IF Lt(c, a) THEN c ELSE a
Min3(a, b, c) ==
    LET ab == IF Lt(b, a) THEN b ELSE a
    IN  IF Lt(c, ab) THEN c ELSE ab

RECURSIVE SumSq(_, _, _)
SumSq(u, v, k) ==
    IF k = 0 THEN 0 ELSE (u[k] - v[k]) * (u[k] - v[k]) + SumSq(u, v, k - 1)

\* Exact on the perfect squares the frames of the model produce.
Sqrt(x) == CHOOSE r \in 0..x : r * r = x

\* scipy.spatial.distance.euclidean(u, v) for two vectors of equal length.
euclidean(u, v) == Sqrt(SumSq(u, v, Len(u)))

\* ----------------------------------------------------------------- inputs
\* Keypoint frames: two-coordinate frames (pairwise distances 3, 4, 5) and
\* three-coordinate frames (distance 7), so that a dimensionality mismatch
\* between two sequences can happen.
Frames2 == { <<0, 0>>, <<3, 0>>, <<0, 4>> }
Frames3 == { <<0, 0, 0>>, <<2, 3, 6>> }

SeqsOver(S, max) == UNION { [1..k -> S] : k \in 0..max }

\* A sequence is a rectangular array: all its frames have one dimensionality.
MotionSequences == SeqsOver(Frames2, MaxLen) \cup SeqsOver(Frames3, MaxLen)

\* --------------------------------------------- compare_motion_sequences
n == Len(user_seq)
m == Len(reference_seq)

Cells(a, b) == (0..a) \X (0..b)

\* np.full((n + 1, m + 1), np.inf) with [0, 0] = 0
InitMatrixNoZero(a, b) == [ c \in Cells(a, b) |-> Inf ]
InitMatrix(a, b) == [ c \in Cells(a, b) |-> IF c = <<0, 0>> THEN 0 ELSE Inf ]

\* Tuple comparison of Python: (cost, i, j) < (cost', i', j').
TupleLess(a, b) ==
    \/ Lt(a[1], b[1])
    \/ a[1] = b[1] /\ a[2] < b[2]
    \/ a[1] = b[1] /\ a[2] = b[2] /\ a[3] < b[3]

\* builtin min(list): the first element no other element is less than.
MinTupleByCostOnly(cands) ==
    LET m12 == IF Lt(cands[2][1], cands[1][1]) THEN cands[2] ELSE cands[1]
    IN  IF Lt(cands[3][1], m12[1]) THEN cands[3] ELSE m12
MinTuple(cands) ==
    LET m12 == IF TupleLess(cands[2], cands[1]) THEN cands[2] ELSE cands[1]
    IN  IF TupleLess(cands[3], m12) THEN cands[3] ELSE m12

candidates(a, b) ==
    << <<dtw_matrix[<<a - 1, b>>], a - 1, b>>,
       <<dtw_matrix[<<a, b - 1>>], a, b - 1>>,
       <<dtw_matrix[<<a - 1, b - 1>>], a - 1, b - 1>> >>

NoReverse(s) == s
Reverse(s) == [ k \in 1..Len(s) |-> s[Len(s) + 1 - k] ]

\* Lines 93-100, one iteration of the inner loop.
FillCell ==
    /\ pc = "fill"
    /\ i <= n /\ j <= m
    /\ Len(user_seq[i]) = Len(reference_seq[j])
    /\ LET cost == euclidean(user_seq[i], reference_seq[j])
       IN  dtw_matrix' = [ dtw_matrix EXCEPT ![<<i, j>>] =
                Add(cost, Min3(dtw_matrix[<<i - 1, j>>],
                               dtw_matrix[<<i, j - 1>>],
                               dtw_matrix[<<i - 1, j - 1>>])) ]
    /\ IF j < m THEN i' = i /\ j' = j + 1 ELSE i' = i + 1 /\ j' = 1
    /\ UNCHANGED << user_seq, reference_seq, distance, path, pc >>
    /\ UNCHANGED << impactVars, feedbackVars >>
    /\ UNCHANGED extraVars

\* Line 95: euclidean raises ValueError on vectors of different lengths.
FillRaise ==
    /\ pc = "fill"
    /\ i <= n /\ j <= m
    /\ Len(user_seq[i]) # Len(reference_seq[j])
    /\ pc' = "raised"
    /\ UNCHANGED << user_seq, reference_seq, dtw_matrix, i, j, distance, path >>
    /\ UNCHANGED << impactVars, feedbackVars >>
    /\ UNCHANGED extraVars

\* Lines 102-105: the loops are over (also at once, when a range is empty).
LoopExit ==
    /\ pc = "fill"
    /\ (i > n \/ m = 0)
    /\ distance' = << dtw_matrix[<<n, m>>] >>
    /\ path' = << >>
    /\ i' = n /\ j' = m
    /\ pc' = "backtrace"
    /\ UNCHANGED << user_seq, reference_seq, dtw_matrix >>
    /\ UNCHANGED << impactVars, feedbackVars >>
    /\ UNCHANGED extraVars

\* Lines 106-113, one iteration of the while loop.
BacktraceStep ==
    /\ pc = "backtrace"
    /\ i > 0 /\ j > 0
    /\ path' = Append(path, <<i - 1, j - 1>>)
    /\ LET best == MinTuple(candidates(i, j))
       IN  i' = best[2] /\ j' = best[3]
    /\ UNCHANGED << user_seq, reference_seq, dtw_matrix, distance, pc >>
    /\ UNCHANGED << impactVars, feedbackVars >>
    /\ UNCHANGED extraVars

\* Lines 115-116.
Return ==
    /\ pc = "backtrace"
    /\ ~(i > 0 /\ j > 0)
    /\ path' = Reverse(path)
    /\ pc' = "done"
    /\ UNCHANGED << user_seq, reference_seq, dtw_matrix, i, j, distance >>
    /\ UNCHANGED << impactVars, feedbackVars >>
    /\ UNCHANGED extraVars

IdleImpact ==
    /\ user_analysis = << >> /\ best_ref_analysis = << >>
    /\ user_impact_idx = << >> /\ ref_impact_idx = << >>

IdleFeedback ==
    /\ user_impact = << >> /\ ref_impact = << >>
    /\ feedback = << >> /\ score = << >> /\ fpc = "idle"

IdleDTW ==
    /\ user_seq = << >> /\ reference_seq = << >>
    /\ dtw_matrix = InitMatrix(0, 0)
    /\ i = 1 /\ j = 1 /\ distance = << >> /\ path = << >> /\ pc = "idle"

\* Lines 89-91: the call, with any two sequences as arguments.
InitDTW ==
    /\ user_seq \in MotionSequences
    /\ reference_seq \in MotionSequences
    /\ dtw_matrix = InitMatrix(Len(user_seq), Len(reference_seq))
    /\ i = 1 /\ j = 1
    /\ distance = << >>
    /\ path = << >>
    /\ pc = "fill"
    /\ IdleImpact /\ IdleFeedback /\ IdleExtra

NextDTW == FillCell \/ FillRaise \/ LoopExit \/ BacktraceStep \/ Return

SpecDTW == InitDTW /\ [][NextDTW]_vars

\* ------------------------------------------------ properties of the aligner
\* The call returned (no exception) on two non-empty sequences.
Aligned == pc = "done" /\ n > 0 /\ m > 0

IsStep(p, q) ==
    /\ q[1] - p[1] \in {0, 1}
    /\ q[2] - p[2] \in {0, 1}
    /\ (q[1] - p[1]) + (q[2] - p[2]) >= 1

IsWarpingPath(p, a, b) ==
    /\ Len(p) >= 1
    /\ p[1] = <<0, 0>>
    /\ p[Len(p)] = <<a - 1, b - 1>>
    /\ \A k \in 1..(Len(p) - 1) : IsStep(p[k], p[k + 1])

\* C1: the path returned for two non-empty sequences starts at (0,0), ends at
\* (n-1,m-1), and each entry increases i by 0 or 1 and j by 0 or 1 over the
\* entry before it, at least one of the two increasing.
C1_PathValid == Aligned => IsWarpingPath(path, n, m)

C1_Witness ==
    /\ Aligned /\ n = 3 /\ m = 2 /\ Len(path) = 3
    /\ \E k \in 1..2 : path[k + 1][1] = path[k][1] + 1 /\ path[k + 1][2] = path[k][2]

\* All index sequences from (0,0) to (a,b) built from the steps (1,0), (0,1), (1,1).
RECURSIVE PathsTo(_, _)
PathsTo(a, b) ==
    IF a = 0 /\ b = 0 THEN { << <<0, 0>> >> }
    ELSE LET preds == { p \in { <<a - 1, b>>, <<a, b - 1>>, <<a - 1, b - 1>> } :
                            p[1] >= 0 /\ p[2] >= 0 }
         IN  UNION { { Append(q, <<a, b>>) : q \in PathsTo(p[1], p[2]) } : p \in preds }

RECURSIVE PathCost(_, _)
PathCost(p, k) ==
    IF k = 0 THEN 0
    ELSE euclidean(user_seq[p[k][1] + 1], reference_seq[p[k][2] + 1]) + PathCost(p, k - 1)

MinOf(S) == CHOOSE x \in S : \A y \in S : x <= y

MinLt(a, b) == IF Lt(b, a) THEN b ELSE a

\* C2: the distance returned is cost(n,m) of the recurrence
\* cost(i,j) = d(A[i-1],B[j-1]) + min(cost(i-1,j), cost(i,j-1), cost(i-1,j-1)),
\* cost(0,0) = 0 and every other boundary cell infinite, and it is the least
\* summed frame cost over all warping paths from (0,0) to (n-1,m-1).
C2_DistanceIsRecurrenceMinimum ==
    Aligned =>
        /\ distance = << dtw_matrix[<<n, m>>] >>
        /\ dtw_matrix[<<0, 0>>] = 0
        /\ \A a \in 1..n : dtw_matrix[<<a, 0>>] = Inf
        /\ \A b \in 1..m : dtw_matrix[<<0, b>>] = Inf
        /\ \A a \in 1..n, b \in 1..m :
              dtw_matrix[<<a, b>>] =
                  Add(euclidean(user_seq[a], reference_seq[b]),
                      MinLt(dtw_matrix[<<a - 1, b>>],
                            MinLt(dtw_matrix[<<a, b - 1>>], dtw_matrix[<<a - 1, b - 1>>])))
        /\ \A p \in PathsTo(n - 1, m - 1) : IsWarpingPath(p, n, m)
        /\ distance[1] = MinOf({ PathCost(p, Len(p)) : p \in PathsTo(n - 1, m - 1) })

C2_Witness ==
    /\ Aligned /\ n = 3 /\ m = 3
    /\ distance[1] > 0
    /\ distance[1] < PathCost(<< <<0, 0>>, <<1, 1>>, <<2, 2>> >>, 3)

\* C3: aligning a non-empty sequence with itself gives distance 0.
C3_SelfDistanceZero ==
    (pc = "done" /\ n > 0 /\ user_seq = reference_seq) => distance = <<0>>

C3_Witness ==
    /\ pc = "done" /\ n = 3 /\ user_seq = reference_seq
    /\ user_seq[1] # user_seq[2] /\ user_seq[2] # user_seq[3]
    /\ distance = <<0>>

\* Two frames are identical under the frame-distance metric.
SameFrame(u, v) == euclidean(u, v) = 0

PointwiseIdentical ==
    /\ n = m
    /\ \A k \in 1..n : SameFrame(user_seq[k], reference_seq[k])

\* A sequence with every run of consecutive identical frames merged into one.
RECURSIVE Collapse(_)
Collapse(s) ==
    IF Len(s) <= 1 THEN s
    ELSE IF SameFrame(s[1], s[2]) THEN Collapse(Tail(s))
         ELSE << s[1] >> \o Collapse(Tail(s))

SameSequence(s, t) ==
    /\ Len(s) = Len(t)
    /\ \A k \in 1..Len(s) : SameFrame(s[k], t[k])

\* C4 as stated: the distance is non-negative, and 0 if and only if the two
\* sequences have equal length and are pointwise identical.
C4_ZeroIffIdentical ==
    Aligned =>
        /\ distance[1] >= 0
        /\ (distance[1] = 0 <=> PointwiseIdentical)

\* C4 amended: the distance is non-negative, it is 0 when the two sequences
\* have equal length and are pointwise identical, and it is 0 exactly when
\* the two sequences are identical once consecutive repeated frames are
\* merged (so sequences of different lengths can be at distance 0).
C4_ZeroIffSameAfterCollapse ==
    Aligned =>
        /\ distance[1] >= 0
        /\ (PointwiseIdentical => distance[1] = 0)
        /\ (distance[1] = 0 <=> SameSequence(Collapse(user_seq), Collapse(reference_seq)))

C4_Witness ==
    /\ Aligned /\ n = 1 /\ m = 2
    /\ distance = <<0>>
    /\ ~PointwiseIdentical

\* Either sequence is empty, or the frames of the two differ in dimensionality.
InvalidInput ==
    \/ n = 0
    \/ m = 0
    \/ Len(user_seq[1]) # Len(reference_seq[1])

\* C5: on an empty sequence or on mismatched dimensionalities the aligner
\* fails before any computation: no cell is computed, no distance and no
\* path is produced, and the call never returns.
C5_InvalidInputRejected ==
    InvalidInput =>
        /\ pc \in { "fill", "raised" }
        /\ dtw_matrix = InitMatrix(n, m)
        /\ distance = << >>
        /\ path = << >>

\* ----------------------------------------------- main: impact frames
\* main reads df at line 125 before its own assignment of df at line 128, so
\* a call of main as written stops there; the impact selection and the
\* feedback are modelled as the functions of their inputs that lines 164-264
\* compute.
\* Wrist heights (shoulder_y - wrist_y) of the analysis rows, in hundredths.
WristHeights == { -1, 0, 1 }

\* analyze_key_poses returns one row per frame, sorted by frame_count; the
\* frame counts need not be contiguous.
TableOf(col) == [ k \in 1..Len(col) |-> [ frame |-> 2 * k + 1, wrist_height |-> col[k] ] ]

\* analyze_key_poses raises on zero frames: a table has at least one row.
AnalysisTables == { TableOf(col) : col \in (SeqsOver(WristHeights, MaxRows) \ { << >> }) }

Column(table) == [ k \in 1..Len(table) |-> table[k].wrist_height ]

RECURSIVE ArgMinLastFrom(_, _, _)
ArgMinLastFrom(col, k, best) ==
    IF k > Len(col) THEN best
    ELSE ArgMinLastFrom(col, k + 1, IF col[k] <= col[best] THEN k ELSE best)

RECURSIVE ArgMinFrom(_, _, _)
ArgMinFrom(col, k, best) ==
    IF k > Len(col) THEN best
    ELSE ArgMinFrom(col, k + 1, IF col[k] < col[best] THEN k ELSE best)

\* Series.idxmin(): the 0-based label of the first occurrence of the minimum.
idxminLast(col) == ArgMinLastFrom(col, 2, 1) - 1
idxmin(col) == ArgMinFrom(col, 2, 1) - 1

\* DataFrame.iloc[idx]
iloc(table, idx) == table[idx + 1]

\* Lines 165-168.
IdentifyImpact ==
    /\ fpc = "impact"
    /\ user_impact_idx' = << idxmin(Column(user_analysis)) >>
    /\ ref_impact_idx' = << idxmin(Column(best_ref_analysis)) >>
    /\ user_impact' = iloc(user_analysis, idxmin(Column(user_analysis)))
    /\ ref_impact' = iloc(best_ref_analysis, idxmin(Column(best_ref_analysis)))
    /\ fpc' = "impact_done"
    /\ UNCHANGED << user_analysis, best_ref_analysis, feedback, score >>
    /\ UNCHANGED dtwVars
    /\ UNCHANGED extraVars

InitImpact ==
    /\ user_analysis \in AnalysisTables
    /\ best_ref_analysis \in AnalysisTables
    /\ user_impact_idx = << >> /\ ref_impact_idx = << >>
    /\ user_impact = << >> /\ ref_impact = << >>
    /\ feedback = << >> /\ score = << >>
    /\ fpc = "impact"
    /\ IdleDTW /\ IdleExtra

NextImpact == IdentifyImpact

SpecImpact == InitImpact /\ [][NextImpact]_vars

\* The row at 0-based index idx has the least wrist height of the table and
\* every row before it has a strictly greater one.
IsFirstMinimum(table, idx, row) ==
    /\ idx \in 0..(Len(table) - 1)
    /\ row = table[idx + 1]
    /\ \A k \in 1..Len(table) : table[k].wrist_height >= row.wrist_height
    /\ \A k \in 1..idx : table[k].wrist_height > row.wrist_height

\* C6: the impact frame is the row of minimum wrist height over the whole
\* sequence, the first such row when several share the minimum.
C6_ImpactIsFirstMinimum ==
    fpc = "impact_done" =>
        /\ IsFirstMinimum(user_analysis, user_impact_idx[1], user_impact)
        /\ IsFirstMinimum(best_ref_analysis, ref_impact_idx[1], ref_impact)

C6_Witness ==
    /\ fpc = "impact_done"
    /\ Column(user_analysis) = << 0, -1, -1 >>
    /\ user_impact_idx = << 1 >>
    /\ user_impact.frame = 5
    /\ Column(best_ref_analysis) = << 1, 1 >>
    /\ ref_impact_idx = << 0 >>

\* ------------------------------------- main: generate_detailed_feedback
\* Impact rows: angles in tenths of a degree, wrist height and arm extension
\* in thousandths.  The values put every difference at 0, 1, exactly the
\* threshold and one above it, in both directions.
ElbowAngles == { 1000, 1150, 1151 }
ShoulderAngles == { 200, 350, 351 }
ImpactWristHeights == { -150, -100, -99 }
ArmExtensions == { 300, 350, 351 }

ImpactRows == [ elbow_angle : ElbowAngles, shoulder_angle : ShoulderAngles,
                wrist_height : ImpactWristHeights, arm_extension : ArmExtensions ]

\* Tenths of a degree per degree: angles are printed with one decimal.
AngleScale == 10
\* Default of the threshold parameter (degrees); the call passes none.
threshold == 15
\* The literal 0.05 of the two positional tests, in thousandths.
pos_threshold == 50

\* The impact values of the end-to-end scenario: elbow 159.1 against 174.9,
\* shoulder 81.3 against 23.1, wrist height -0.100 against -0.149, and an
\* arm extension that differs by 0 or by exactly 0.05.
ScenarioUserRows == [ elbow_angle : { 1591 }, shoulder_angle : { 813 },
                      wrist_height : { -100 }, arm_extension : { 300, 350 } ]
ScenarioRefRows == [ elbow_angle : { 1749 }, shoulder_angle : { 231 },
                     wrist_height : { -149 }, arm_extension : { 300 } ]

ImpactPairs == (ImpactRows \X ImpactRows) \cup (ScenarioUserRows \X ScenarioRefRows)

elbow_diff == user_impact.elbow_angle - ref_impact.elbow_angle
shoulder_diff == user_impact.shoulder_angle - ref_impact.shoulder_angle
height_diff == user_impact.wrist_height - ref_impact.wrist_height
extension_diff == user_impact.arm_extension - ref_impact.arm_extension

\* abs(diff) > limit
ExceedsOrEquals(diff, limit) == Abs(diff) >= limit
Exceeds(diff, limit) == Abs(diff) > limit

\* Lines 189-195.
ElbowCheck ==
    /\ fpc = "elbow"
    /\ feedback' = Append(feedback,
          IF Exceeds(elbow_diff, threshold * AngleScale)
          THEN (IF elbow_diff > 0 THEN "ELBOW_TOO_STRAIGHT" ELSE "ELBOW_TOO_BENT")
          ELSE "ELBOW_OK")
    /\ fpc' = "shoulder"
    /\ UNCHANGED << user_impact, ref_impact, score >>
    /\ UNCHANGED << dtwVars, impactVars >>
    /\ UNCHANGED extraVars

\* Lines 204-210.
ShoulderCheck ==
    /\ fpc = "shoulder"
    /\ feedback' = Append(feedback,
          IF Exceeds(shoulder_diff, threshold * AngleScale)
          THEN (IF shoulder_diff > 0 THEN "SHOULDER_OVER_ROTATION" ELSE "SHOULDER_ROTATE_MORE")
          ELSE "SHOULDER_OK")
    /\ fpc' = "height"
    /\ UNCHANGED << user_impact, ref_impact, score >>
    /\ UNCHANGED << dtwVars, impactVars >>
    /\ UNCHANGED extraVars

\* Lines 219-225.
HeightCheck ==
    /\ fpc = "height"
    /\ feedback' = Append(feedback,
          IF Exceeds(height_diff, pos_threshold)
          THEN (IF height_diff > 0 THEN "CONTACT_TOO_LOW" ELSE "CONTACT_TOO_HIGH")
          ELSE "CONTACT_OK")
    /\ fpc' = "extension"
    /\ UNCHANGED << user_impact, ref_impact, score >>
    /\ UNCHANGED << dtwVars, impactVars >>
    /\ UNCHANGED extraVars

\* Lines 234-240.
ExtensionCheckSwapped ==
    /\ fpc = "extension"
    /\ feedback' = Append(feedback,
          IF Exceeds(extension_diff, pos_threshold)
          THEN (IF extension_diff > 0 THEN "EXTENSION_REACH_HIGHER" ELSE "EXTENSION_OVER")
          ELSE "EXTENSION_OK")
    /\ fpc' = "score"
    /\ UNCHANGED << user_impact, ref_impact, score >>
    /\ UNCHANGED << dtwVars, impactVars >>
    /\ UNCHANGED extraVars
ExtensionCheck ==
    /\ fpc = "extension"
    /\ feedback' = Append(feedback,
          IF Exceeds(extension_diff, pos_threshold)
          THEN (IF extension_diff < 0 THEN "EXTENSION_REACH_HIGHER" ELSE "EXTENSION_OVER")
          ELSE "EXTENSION_OK")
    /\ fpc' = "score"
    /\ UNCHANGED << user_impact, ref_impact, score >>
    /\ UNCHANGED << dtwVars, impactVars >>
    /\ UNCHANGED extraVars

\* Lines 243-247.
OverallScoreAdding ==
    100 + (IF Exceeds(elbow_diff, threshold * AngleScale) THEN 20 ELSE 0)
        + (IF Exceeds(shoulder_diff, threshold * AngleScale) THEN 20 ELSE 0)
        + (IF Exceeds(height_diff, pos_threshold) THEN 20 ELSE 0)
        + (IF Exceeds(extension_diff, pos_threshold) THEN 15 ELSE 0)
OverallScoreExtension20 ==
    100 - (IF Exceeds(elbow_diff, threshold * AngleScale) THEN 20 ELSE 0)
        - (IF Exceeds(shoulder_diff, threshold * AngleScale) THEN 20 ELSE 0)
        - (IF Exceeds(height_diff, pos_threshold) THEN 20 ELSE 0)
        - (IF Exceeds(extension_diff, pos_threshold) THEN 20 ELSE 0)
OverallScore ==
    100 - (IF Exceeds(elbow_diff, threshold * AngleScale) THEN 20 ELSE 0)
        - (IF Exceeds(shoulder_diff, threshold * AngleScale) THEN 20 ELSE 0)
        - (IF Exceeds(height_diff, pos_threshold) THEN 20 ELSE 0)
        - (IF Exceeds(extension_diff, pos_threshold) THEN 15 ELSE 0)

\* Lines 243-249.
ComputeScore ==
    /\ fpc = "score"
    /\ score' = << OverallScore >>
    /\ feedback' = Append(feedback, "OVERALL_FORM_SCORE")
    /\ fpc' = "band"
    /\ UNCHANGED << user_impact, ref_impact >>
    /\ UNCHANGED << dtwVars, impactVars >>
    /\ UNCHANGED extraVars

\* Lines 251-258: the if/elif chain, one message.
BandStrict(s) ==
    IF s > 90 THEN << "EXCELLENT" >>
    ELSE IF s > 70 THEN << "GOOD" >>
    ELSE IF s > 50 THEN << "DECENT" >>
    ELSE << "KEEP_PRACTICING" >>
Band(s) ==
    IF s >= 90 THEN << "EXCELLENT" >>
    ELSE IF s >= 70 THEN << "GOOD" >>
    ELSE IF s >= 50 THEN << "DECENT" >>
    ELSE << "KEEP_PRACTICING" >>

\* Lines 251-262.
EmitBand ==
    /\ fpc = "band"
    /\ feedback' = feedback \o Band(score[1])
    /\ fpc' = "done"
    /\ UNCHANGED << user_impact, ref_impact, score >>
    /\ UNCHANGED << dtwVars, impactVars >>
    /\ UNCHANGED extraVars

\* Line 264: the call, on any pair of impact rows.
InitFeedback ==
    /\ \E pair \in ImpactPairs : user_impact = pair[1] /\ ref_impact = pair[2]
    /\ feedback = << >>
    /\ score = << >>
    /\ fpc = "elbow"
    /\ IdleDTW /\ IdleImpact /\ IdleExtra

NextFeedback ==
    ElbowCheck \/ ShoulderCheck \/ HeightCheck \/ ExtensionCheck \/ ComputeScore \/ EmitBand

SpecFeedback == InitFeedback /\ [][NextFeedback]_vars

\* ------------------------------------------- properties of the feedback
Said(msg) == \E k \in 1..Len(feedback) : feedback[k] = msg

Count(msgs) == Cardinality({ k \in 1..Len(feedback) : feedback[k] \in msgs })

\* The feature was flagged: it got one of its two warnings, not its confirmation.
ElbowFlagged == (Said("ELBOW_TOO_STRAIGHT") \/ Said("ELBOW_TOO_BENT")) /\ ~Said("ELBOW_OK")
ShoulderFlagged ==
    (Said("SHOULDER_OVER_ROTATION") \/ Said("SHOULDER_ROTATE_MORE")) /\ ~Said("SHOULDER_OK")
HeightFlagged == (Said("CONTACT_TOO_LOW") \/ Said("CONTACT_TOO_HIGH")) /\ ~Said("CONTACT_OK")
ExtensionFlagged ==
    (Said("EXTENSION_REACH_HIGHER") \/ Said("EXTENSION_OVER")) /\ ~Said("EXTENSION_OK")

\* |user - reference| is strictly greater than the limit.
Beyond(user, ref, limit) == user - ref > limit \/ ref - user > limit

Scored == fpc \in { "band", "done" }

\* C7: each difference is user minus reference and the feature is flagged
\* if and only if its absolute difference is strictly greater than the
\* threshold: 15 for the two angles, 0.05 for wrist height and arm extension.
C7_FlaggedIffBeyondThreshold ==
    Scored =>
        /\ ElbowFlagged <=> Beyond(user_impact.elbow_angle, ref_impact.elbow_angle, 150)
        /\ ShoulderFlagged <=> Beyond(user_impact.shoulder_angle, ref_impact.shoulder_angle, 150)
        /\ HeightFlagged <=> Beyond(user_impact.wrist_height, ref_impact.wrist_height, 50)
        /\ ExtensionFlagged <=> Beyond(user_impact.arm_extension, ref_impact.arm_extension, 50)
        /\ Said("ELBOW_TOO_STRAIGHT") => user_impact.elbow_angle > ref_impact.elbow_angle
        /\ Said("CONTACT_TOO_LOW") => user_impact.wrist_height > ref_impact.wrist_height

C7_Witness ==
    /\ fpc = "done"
    /\ user_impact.elbow_angle - ref_impact.elbow_angle = 150 /\ ~ElbowFlagged
    /\ ref_impact.shoulder_angle - user_impact.shoulder_angle = 151 /\ ShoulderFlagged
    /\ ref_impact.wrist_height - user_impact.wrist_height = 50 /\ ~HeightFlagged
    /\ user_impact.arm_extension - ref_impact.arm_extension = 51 /\ ExtensionFlagged

Deduction(flagged, points) == IF flagged THEN points ELSE 0

\* C8: the score is 100 minus 20 for a flagged elbow angle, 20 for a flagged
\* shoulder angle, 20 for a flagged wrist height and 15 for a flagged arm
\* extension, and nothing else.
C8_ScoreIsHundredMinusDeductions ==
    Scored =>
        score = << 100 - Deduction(ElbowFlagged, 20) - Deduction(ShoulderFlagged, 20)
                       - Deduction(HeightFlagged, 20) - Deduction(ExtensionFlagged, 15) >>

C8_Witness ==
    /\ fpc = "done"
    /\ ElbowFlagged /\ ~ShoulderFlagged /\ ~HeightFlagged /\ ExtensionFlagged
    /\ score = << 65 >>

\* C9: the score is an integer between 0 and 100.
C9_ScoreInRange == Scored => (Len(score) = 1 /\ score[1] \in 0..100)

C9_Witness ==
    /\ fpc = "done"
    /\ ElbowFlagged /\ ShoulderFlagged /\ HeightFlagged /\ ExtensionFlagged
    /\ score = << 25 >>

BandMessages == { "EXCELLENT", "GOOD", "DECENT", "KEEP_PRACTICING" }

BandOfScore(s) ==
    CHOOSE b \in BandMessages :
        /\ b = "EXCELLENT" <=> s >= 90
        /\ b = "GOOD" <=> (70 <= s /\ s < 90)
        /\ b = "DECENT" <=> (50 <= s /\ s < 70)
        /\ b = "KEEP_PRACTICING" <=> s < 50

\* C10: the band depends on the score alone, with inclusive lower bounds
\* (90 excellent, 70 good, 50 decent, 49 needs-work), and exactly one band
\* message is emitted.
C10_BandByBreakpoints ==
    /\ \A s \in 0..100 : Band(s) = << BandOfScore(s) >>
    /\ Band(90) = << "EXCELLENT" >> /\ Band(70) = << "GOOD" >>
    /\ Band(50) = << "DECENT" >> /\ Band(49) = << "KEEP_PRACTICING" >>
    /\ fpc = "done" =>
          /\ Count(BandMessages) = 1
          /\ feedback[Len(feedback)] = BandOfScore(score[1])
    /\ fpc # "done" => Count(BandMessages) = 0

C10_Witness ==
    /\ fpc = "done"
    /\ score = << 80 >>
    /\ feedback[Len(feedback)] = "GOOD"
    /\ Count(BandMessages) = 1

\* ------------------------------------------ ties during the backtrace
\* The candidate's cost is the minimum of the three costs.
IsMinimalCost(cands, k) == \A l \in 1..3 : ~Lt(cands[l][1], cands[k][1])

\* The cell of the first candidate, in the order given, with minimal cost.
FirstMinimalIn(cands, order) ==
    LET k == IF IsMinimalCost(cands, order[1]) THEN order[1]
             ELSE IF IsMinimalCost(cands, order[2]) THEN order[2]
             ELSE order[3]
    IN  << cands[k][2], cands[k][3] >>

\* C18: when predecessor cells tie for the minimum cost the backtrace steps
\* to the one listed first in the source: (i-1,j), then (i,j-1), then
\* (i-1,j-1).
C18_TiesFollowListOrder ==
    [][BacktraceStep => << i', j' >> = FirstMinimalIn(candidates(i, j), << 1, 2, 3 >>)]_vars

\* C18, as the code has it: when predecessor cells tie for the minimum cost
\* the backtrace steps to the smallest (i, j) pair, that is to (i-1,j-1)
\* first, then (i-1,j), then (i,j-1).
C18_TiesPreferDiagonal ==
    [][BacktraceStep => << i', j' >> = FirstMinimalIn(candidates(i, j), << 3, 1, 2 >>)]_vars

\* The last step was taken from a cell whose three predecessors all tied,
\* and it went to the diagonal one.
C18_Witness ==
    /\ pc = "backtrace"
    /\ Len(path) > 0
    /\ LET a == path[Len(path)][1] + 1
           b == path[Len(path)][2] + 1
       IN  /\ dtw_matrix[<<a - 1, b>>] = dtw_matrix[<<a - 1, b - 1>>]
           /\ dtw_matrix[<<a, b - 1>>] = dtw_matrix[<<a - 1, b - 1>>]
           /\ dtw_matrix[<<a - 1, b - 1>>] # Inf
           /\ i = a - 1 /\ j = b - 1

\* ------------------------------------------------- lowest score
AllFourFlagged == ElbowFlagged /\ ShoulderFlagged /\ HeightFlagged /\ ExtensionFlagged

\* C19: the four deductions together, applied without clamping, drive the
\* score below zero.
C19_FourDeductionsBelowZero ==
    (Scored /\ AllFourFlagged) => score[1] < 0

\* C19, as the code has it: the four deductions add up to 75, so the score
\* never goes below 25 and is 25 exactly when all four features are flagged.
C19_LowestScoreIsTwentyFive ==
    Scored =>
        /\ score[1] >= 25
        /\ AllFourFlagged <=> score = << 25 >>

C19_Witness ==
    /\ fpc = "done"
    /\ AllFourFlagged
    /\ score = << 25 >>
    /\ feedback[Len(feedback)] = "KEEP_PRACTICING"

\* ------------------------------------------- one outcome per feature
\* Exactly one of the feature's three messages was emitted: its
\* confirmation when |user - ref| is within the limit, otherwise the first
\* warning when user - ref is positive and the second when it is negative.
OneOutcome(user, ref, limit, positive, negative, confirmation) ==
    /\ Count({ positive, negative, confirmation }) = 1
    /\ Said(confirmation) <=> ~Beyond(user, ref, limit)
    /\ Said(positive) <=> user - ref > limit
    /\ Said(negative) <=> ref - user > limit

\* C20: each of the four features gets exactly one of three outcomes: the
\* confirmation if it is not flagged, otherwise the warning chosen by the
\* sign of user minus reference (elbow + too straight, - too bent; shoulder
\* + over-rotation, - rotate more; wrist height + contact too low, - contact
\* too high; arm extension - reach higher, + over-extension).
C20_OneOutcomePerFeature ==
    Scored =>
        /\ OneOutcome(user_impact.elbow_angle, ref_impact.elbow_angle, 150,
                      "ELBOW_TOO_STRAIGHT", "ELBOW_TOO_BENT", "ELBOW_OK")
        /\ OneOutcome(user_impact.shoulder_angle, ref_impact.shoulder_angle, 150,
                      "SHOULDER_OVER_ROTATION", "SHOULDER_ROTATE_MORE", "SHOULDER_OK")
        /\ OneOutcome(user_impact.wrist_height, ref_impact.wrist_height, 50,
                      "CONTACT_TOO_LOW", "CONTACT_TOO_HIGH", "CONTACT_OK")
        /\ OneOutcome(user_impact.arm_extension, ref_impact.arm_extension, 50,
                      "EXTENSION_OVER", "EXTENSION_REACH_HIGHER", "EXTENSION_OK")

C20_Witness ==
    /\ fpc = "done"
    /\ user_impact.elbow_angle > ref_impact.elbow_angle /\ Said("ELBOW_TOO_STRAIGHT")
    /\ user_impact.shoulder_angle < ref_impact.shoulder_angle /\ Said("SHOULDER_ROTATE_MORE")
    /\ user_impact.wrist_height = ref_impact.wrist_height /\ Said("CONTACT_OK")
    /\ user_impact.arm_extension < ref_impact.arm_extension /\ Said("EXTENSION_REACH_HIGHER")

\* ------------------------------------------ cost of the returned path
\* C24: for two non-empty sequences with finite frame costs the returned
\* path is a warping path whose summed frame costs equal the returned
\* distance.
C24_PathCostIsDistance ==
    Aligned =>
        /\ IsWarpingPath(path, n, m)
        /\ distance[1] # Inf
        /\ PathCost(path, Len(path)) = distance[1]

\* Sequences of different lengths at a positive distance: the path repeats
\* a frame of the shorter one.
C24_Witness ==
    /\ pc = "done"
    /\ n = 3 /\ m = 2
    /\ Len(path) = 3
    /\ distance[1] > 0
    /\ PathCost(path, 3) = distance[1]

\* ------------------------------------------- band by flagged features
FlaggedCount ==
    Deduction(ElbowFlagged, 1) + Deduction(ShoulderFlagged, 1)
        + Deduction(HeightFlagged, 1) + Deduction(ExtensionFlagged, 1)

BandOfCount(c) ==
    IF c = 0 THEN "EXCELLENT"
    ELSE IF c = 1 THEN "GOOD"
    ELSE IF c = 2 THEN "DECENT"
    ELSE "KEEP_PRACTICING"

\* C27: the band is determined by the number of flagged features alone
\* (none excellent, one good, two decent, three or four needs-work) and the
\* score is one of 100, 85, 80, 65, 60, 45, 40, 25.
C27_BandByFlaggedCount ==
    /\ Scored => score[1] \in { 100, 85, 80, 65, 60, 45, 40, 25 }
    /\ fpc = "done" => feedback[Len(feedback)] = BandOfCount(FlaggedCount)

\* Three features flagged, the arm extension among them.
C27_Witness ==
    /\ fpc = "done"
    /\ FlaggedCount = 3 /\ ExtensionFlagged
    /\ score = << 45 >>
    /\ feedback[Len(feedback)] = "KEEP_PRACTICING"

\* The run is on the impact values of the end-to-end scenario.
Scenario ==
    /\ user_impact \in ScenarioUserRows
    /\ ref_impact \in ScenarioRefRows

\* C11 as stated: in the scenario elbow, shoulder and wrist height are all
\* flagged, arm extension is not, and the score is 100 - 20 - 20 - 20 = 40.
C11_ScenarioScoresForty ==
    (Scenario /\ Scored) =>
        /\ ElbowFlagged /\ ShoulderFlagged /\ HeightFlagged /\ ~ExtensionFlagged
        /\ score = << 40 >>

\* C11 amended: in the scenario elbow (-15.8) and shoulder (+58.2) are
\* flagged, wrist height is not (user minus reference is +0.049, not above
\* 0.05), arm extension is not, and the score is 100 - 20 - 20 = 60.
C11_ScenarioScoresSixty ==
    (Scenario /\ Scored) =>
        /\ elbow_diff = -158 /\ Said("ELBOW_TOO_BENT")
        /\ shoulder_diff = 582 /\ Said("SHOULDER_OVER_ROTATION")
        /\ height_diff = 49 /\ Said("CONTACT_OK")
        /\ Said("EXTENSION_OK")
        /\ score = << 60 >>

C11_Witness ==
    /\ Scenario /\ fpc = "done"
    /\ extension_diff = 50
    /\ score = << 60 >>
    /\ feedback[Len(feedback)] = "DECENT"

\* ------------------------------------------ main: best-reference selection
IdleCore == IdleDTW /\ IdleImpact /\ IdleFeedback

\* Reference shot ids (first column of form_scores.csv, rows 3 to 5).
RefIds == { 114, 135, 148 }

\* The three ids in the order they are read: distinct shots.
RefIdTriples == { v \in [1..3 -> RefIds] : \A a, b \in 1..3 : v[a] = v[b] => a = b }

\* DTW distances in tenths (8.7 is 87).
Distances == { 87, 123, 151 }

\* Tuple comparison of Python: (distance, id) < (distance', id').
PairLess(a, b) ==
    \/ a[1] < b[1]
    \/ a[1] = b[1] /\ a[2] < b[2]

\* builtin min(list) of three pairs: the first one no other is less than.
MinPair(pairs) ==
    LET m12 == IF PairLess(pairs[2], pairs[1]) THEN pairs[2] ELSE pairs[1]
    IN  IF PairLess(pairs[3], m12) THEN pairs[3] ELSE m12

\* Line 153.
SelectBest ==
    /\ spc = "select"
    /\ best_ref_id' = << MinPair(<< <<dists[1], values[1]>>,
                                   <<dists[2], values[2]>>,
                                   <<dists[3], values[3]>> >>)[2] >>
    /\ spc' = "selected"
    /\ UNCHANGED << values, dists >>
    /\ UNCHANGED otherThanSelect

\* Lines 139-145: three ids, and the distance of the user sequence to each.
InitSelect ==
    /\ values \in RefIdTriples
    /\ dists \in [1..3 -> Distances]
    /\ best_ref_id = << >>
    /\ spc = "select"
    /\ IdleCore /\ IdleAngle /\ IdleLoad /\ IdleNorm /\ IdleMain /\ IdleExtract /\ IdlePipeline
    /\ IdleServer

NextSelect == SelectBest

SpecSelect == InitSelect /\ [][NextSelect]_vars

\* Position, in input order, of the first reference at the least distance.
FirstMinimal ==
    CHOOSE k \in 1..3 :
        /\ \A l \in 1..3 : dists[k] <= dists[l]
        /\ \A l \in 1..(k - 1) : dists[l] > dists[k]

\* C12: the id selected is the one at the minimal DTW distance, and when
\* several references tie for the minimum it is the first of them in input
\* order.
C12_BestIsFirstMinimal ==
    spc = "selected" => best_ref_id = << values[FirstMinimal] >>

\* ------------------------------------------------------- calculate_angle
\* Joint positions on a lattice whose difference vectors are all horizontal,
\* vertical or diagonal, so that every angle is a multiple of 45 degrees.
AnglePoints == { <<0, 0>>, <<1, 0>>, <<2, 0>>, <<1, 1>> }

\* The floating-point quotient is the exact cosine or a neighbour of it.
RoundingErrors == { -1, 0, 1 }

\* nan: the value of 0/0 and of arccos outside [-1, 1].
NaN == -1

Vec(a, b) == << a[1] - b[1], a[2] - b[2] >>

Dot(u, v) == u[1] * v[1] + u[2] * v[2]

Sign(x) == IF x < 0 THEN -1 ELSE IF x > 0 THEN 1 ELSE 0

\* np.linalg.norm(v) == 0
NeverZero(v) == FALSE
IsZeroNorm(v) == Dot(v, v) = 0

\* np.dot(v1, v2) / (norm1 * norm2) in half-octants of the unit circle:
\* 2 is cosine 1, 1 is 1/sqrt(2), 0 is 0, -1 is -1/sqrt(2), -2 is -1; the
\* quotient 0/0 is nan.
Cosine(v1, v2, err) ==
    LET d == Dot(v1, v1) * Dot(v2, v2)
        dd == Dot(v1, v2) * Dot(v1, v2)
    IN  IF d = 0 THEN [ nan |-> TRUE, class |-> 0, err |-> 0 ]
        ELSE [ nan |-> FALSE,
               class |-> Sign(Dot(v1, v2)) *
                         (CHOOSE c \in 0..2 : (c = 0 /\ dd = 0) \/ (c = 1 /\ 2 * dd = d)
                                                \/ (c = 2 /\ dd = d)),
               err |-> err ]

\* A cosine above 1 or below -1.
OutOfDomain(c) == ~c.nan /\ ((c.class = 2 /\ c.err > 0) \/ (c.class = -2 /\ c.err < 0))

\* np.clip(cos_angle, -1.0, 1.0)
Clip(c) == IF OutOfDomain(c) THEN [ c EXCEPT !.err = 0 ] ELSE c

\* np.degrees(np.arccos(c)), in tenths of a degree.
ArccosDegrees(c) ==
    IF c.nan \/ OutOfDomain(c) THEN NaN
    ELSE (2 - c.class) * 45 * AngleScale

\* Lines 35-42: a zero-length vector gives 0.
AngleDegenerate ==
    /\ apc = "start"
    /\ (IsZeroNorm(Vec(p1, p2)) \/ IsZeroNorm(Vec(p3, p2)))
    /\ angle' = << 0 >>
    /\ apc' = "returned"
    /\ UNCHANGED << p1, p2, p3, cos_angle >>
    /\ UNCHANGED otherThanAngle

\* Lines 35-44.
AngleCosine ==
    /\ apc = "start"
    /\ ~(IsZeroNorm(Vec(p1, p2)) \/ IsZeroNorm(Vec(p3, p2)))
    /\ \E err \in RoundingErrors :
          cos_angle' = << Cosine(Vec(p1, p2), Vec(p3, p2), err) >>
    /\ apc' = "cosine"
    /\ UNCHANGED << p1, p2, p3, angle >>
    /\ UNCHANGED otherThanAngle

\* Lines 45-46.
AngleReturn ==
    /\ apc = "cosine"
    /\ angle' = << ArccosDegrees(Clip(cos_angle[1])) >>
    /\ apc' = "returned"
    /\ UNCHANGED << p1, p2, p3, cos_angle >>
    /\ UNCHANGED otherThanAngle

InitAngle ==
    /\ p1 \in AnglePoints /\ p2 \in AnglePoints /\ p3 \in AnglePoints
    /\ cos_angle = << >>
    /\ angle = << >>
    /\ apc = "start"
    /\ IdleCore /\ IdleSelect /\ IdleLoad /\ IdleNorm /\ IdleMain /\ IdleExtract /\ IdlePipeline
    /\ IdleServer

NextAngle == AngleDegenerate \/ AngleCosine \/ AngleReturn

SpecAngle == InitAngle /\ [][NextAngle]_vars

\* C14: calculate_angle returns exactly 0 when p1 = p2 or p3 = p2, and a
\* value within [0, 180] degrees for every other input; it always returns.
C14_AngleZeroOrInRange ==
    /\ apc \in { "start", "cosine", "returned" }
    /\ apc = "returned" =>
          /\ Len(angle) = 1
          /\ (p1 = p2 \/ p3 = p2) => angle = << 0 >>
          /\ ~(p1 = p2 \/ p3 = p2) => (angle[1] >= 0 /\ angle[1] <= 180 * 10)
    /\ (p1 = p2 \/ p3 = p2) => apc \in { "start", "returned" }

C14_ClippedCase ==
    /\ apc = "returned"
    /\ p1 = <<0, 0>> /\ p2 = <<1, 0>> /\ p3 = <<2, 0>>
    /\ cos_angle[1].err = -1
    /\ angle = << 1800 >>

C14_Witness ==
    /\ apc = "returned"
    /\ p1 = p2 /\ p3 # p2
    /\ angle = << 0 >>

\* ------------------------------------- get_sequence, analyze_key_poses
\* A Python value of the id column or of the shot_id argument: an int or a
\* str, with its text.
IntValue(text) == [ type |-> "int", text |-> text ]
StrValue(text) == [ type |-> "str", text |-> text ]

\* str(x), and Series.astype(str) on one element
Str(x) == StrValue(x.text)

\* One frame of eight joints; the right arm straight up, bent, and collapsed
\* onto the shoulder.
KeyFrames ==
    { [ ls |-> <<3, 2>>, rs |-> <<1, 2>>, le |-> <<3, 1>>, re |-> <<1, 1>>,
        lw |-> <<3, 0>>, rw |-> <<1, 0>>, lh |-> <<3, 4>>, rh |-> <<1, 4>> ],
      [ ls |-> <<3, 2>>, rs |-> <<1, 2>>, le |-> <<3, 1>>, re |-> <<2, 1>>,
        lw |-> <<3, 0>>, rw |-> <<1, 1>>, lh |-> <<4, 4>>, rh |-> <<1, 4>> ],
      [ ls |-> <<2, 2>>, rs |-> <<1, 2>>, le |-> <<2, 2>>, re |-> <<1, 2>>,
        lw |-> <<2, 2>>, rw |-> <<1, 2>>, lh |-> <<2, 4>>, rh |-> <<1, 4>> ] }

DfIds == { IntValue("114"), StrValue("114"), StrValue("user_video") }
ShotIds == { IntValue("114"), IntValue("135"), StrValue("user_video") }

DfRows == [ id : DfIds, frame_count : 0..MaxDfRows, kpt : KeyFrames ]

\* The data file: any rows, in any order, no frame count twice.
DataFrames ==
    { t \in SeqsOver(DfRows, MaxDfRows) :
          \A a, b \in 1..Len(t) : t[a].frame_count = t[b].frame_count => a = b }

\* df[df['id'].astype(str) == str(shot_id)]
RowsOfShot(table, id) == { table[k] : k \in { l \in 1..Len(table) : Str(table[l].id) = Str(id) } }

\* .sort_values('frame_count').reset_index(drop=True)
RECURSIVE SortByFrameCount(_)
SortByFrameCount(rows) ==
    IF rows = {} THEN << >>
    ELSE LET first == CHOOSE r \in rows : \A q \in rows : r.frame_count <= q.frame_count
         IN  << first >> \o SortByFrameCount(rows \ { first })

\* shot_df.empty
NeverEmpty(t) == FALSE
IsEmpty(t) == Len(t) = 0

\* calculate_angle as a function of its arguments.
calculate_angle(a, b, c) ==
    IF IsZeroNorm(Vec(a, b)) \/ IsZeroNorm(Vec(c, b)) THEN 0
    ELSE ArccosDegrees(Clip(Cosine(Vec(a, b), Vec(c, b), 0)))

\* Lines 58-82: the analysis row of one frame (lengths in lattice units).
AnalysisRow(row) ==
    LET k == row.kpt
    IN  [ frame |-> row.frame_count,
          elbow_angle |-> calculate_angle(k.rs, k.re, k.rw),
          shoulder_angle |-> calculate_angle(k.rh, k.rs, k.re),
          wrist_height |-> k.rs[2] - k.rw[2],
          shoulder_width |-> Abs(k.rs[1] - k.ls[1]),
          hip_width |-> Abs(k.rh[1] - k.lh[1]),
          arm_extension |-> Sqrt((k.rw[1] - k.rs[1]) * (k.rw[1] - k.rs[1])
                                 + (k.rw[2] - k.rs[2]) * (k.rw[2] - k.rs[2])) ]

\* Lines 25 and 51.
FilterShot ==
    /\ lpc = "start"
    /\ shot_df' = SortByFrameCount(RowsOfShot(df, shot_id))
    /\ lpc' = "filtered"
    /\ UNCHANGED << df, shot_id, fn, analysis, returned >>
    /\ UNCHANGED otherThanLoad

\* Lines 26-28 and 52-54.
RaiseNoFrames ==
    /\ lpc = "filtered"
    /\ IsEmpty(shot_df)
    /\ lpc' = "raised"
    /\ UNCHANGED << df, shot_id, fn, shot_df, analysis, returned >>
    /\ UNCHANGED otherThanLoad

\* Lines 29-30.
GetSequenceReturn ==
    /\ lpc = "filtered"
    /\ fn = "get_sequence"
    /\ ~IsEmpty(shot_df)
    /\ returned' = << [ k \in 1..Len(shot_df) |-> shot_df[k].kpt ] >>
    /\ lpc' = "returned"
    /\ UNCHANGED << df, shot_id, fn, shot_df, analysis >>
    /\ UNCHANGED otherThanLoad

\* Lines 56-82, one iteration of the loop over the rows.
AnalyzeRow ==
    /\ lpc = "filtered"
    /\ fn = "analyze_key_poses"
    /\ ~IsEmpty(shot_df)
    /\ Len(analysis) < Len(shot_df)
    /\ analysis' = Append(analysis, AnalysisRow(shot_df[Len(analysis) + 1]))
    /\ UNCHANGED << df, shot_id, fn, shot_df, returned, lpc >>
    /\ UNCHANGED otherThanLoad

\* Line 84.
AnalyzeReturn ==
    /\ lpc = "filtered"
    /\ fn = "analyze_key_poses"
    /\ ~IsEmpty(shot_df)
    /\ Len(analysis) = Len(shot_df)
    /\ returned' = << analysis >>
    /\ lpc' = "returned"
    /\ UNCHANGED << df, shot_id, fn, shot_df, analysis >>
    /\ UNCHANGED otherThanLoad

InitLoad ==
    /\ df \in DataFrames
    /\ shot_id \in ShotIds
    /\ fn \in { "get_sequence", "analyze_key_poses" }
    /\ shot_df = << >>
    /\ analysis = << >>
    /\ returned = << >>
    /\ lpc = "start"
    /\ IdleCore /\ IdleSelect /\ IdleAngle /\ IdleNorm /\ IdleMain /\ IdleExtract /\ IdlePipeline
    /\ IdleServer

NextLoad == FilterShot \/ RaiseNoFrames \/ GetSequenceReturn \/ AnalyzeRow \/ AnalyzeReturn

SpecLoad == InitLoad /\ [][NextLoad]_vars

\* The data file holds no row of the shot.
ZeroFrames == \A k \in 1..Len(df) : df[k].id.text # shot_id.text

\* C13: for a shot id with zero frames both loaders raise before any
\* per-frame feature is computed and return nothing, so neither ever
\* returns an empty sequence.
C13_ZeroFramesRaise ==
    /\ ZeroFrames =>
          /\ lpc \in { "start", "filtered", "raised" }
          /\ analysis = << >>
          /\ returned = << >>
    /\ (ZeroFrames /\ lpc = "filtered") => (ENABLED RaiseNoFrames /\ ~ENABLED AnalyzeRow)
    /\ lpc = "returned" => (Len(returned) = 1 /\ Len(returned[1]) > 0)
    /\ lpc = "raised" => ZeroFrames

C13_Witness ==
    /\ lpc = "raised"
    /\ fn = "analyze_key_poses"
    /\ Len(df) = 2
    /\ shot_id = IntValue("135")
    /\ analysis = << >> /\ returned = << >>

\* ------------------------------------------------- normalize_coordinates
\* Pixel coordinates of the training data: none is negative.
PixelValues == { 0, 1, 2 }

VideoIds == { "114", "135" }

\* One row: the video id and one keypoint.  A coordinate is the fraction
\* num / den; a pixel value v is v / 1.
PixelRows ==
    { [ id |-> v, kpt_x |-> [ num |-> x, den |-> 1 ], kpt_y |-> [ num |-> y, den |-> 1 ] ] :
          v \in VideoIds, x \in PixelValues, y \in PixelValues }

PixelTables == SeqsOver(PixelRows, MaxNormRows)

\* df['id'].unique(): the ids in the order of their first row.
RECURSIVE Unique(_, _)
Unique(table, k) ==
    IF k > Len(table) THEN << >>
    ELSE IF \E l \in 1..(k - 1) : table[l].id = table[k].id THEN Unique(table, k + 1)
         ELSE << table[k].id >> \o Unique(table, k + 1)

\* x_values[x_values > 0] of the rows of one video (den is 1 before the
\* video is normalised).
PositiveX(table, v) ==
    { table[k].kpt_x.num : k \in { l \in 1..Len(table) : table[l].id = v /\ table[l].kpt_x.num > 0 } }
PositiveY(table, v) ==
    { table[k].kpt_y.num : k \in { l \in 1..Len(table) : table[l].id = v /\ table[l].kpt_y.num > 0 } }

MaxOf(S) == CHOOSE x \in S : \A y \in S : y <= x

\* c /= max
Divide(c, max) == [ num |-> c.num, den |-> c.den * max ]

\* Lines 35-52, one iteration of the loop over the video ids.
NormalizeVideo ==
    /\ npc = "loop"
    /\ Len(video_ids) > 0
    /\ LET video_id == Head(video_ids)
           x_values == PositiveX(df_normalized, video_id)
           y_values == PositiveY(df_normalized, video_id)
       IN  df_normalized' =
              IF x_values # {} /\ y_values # {}
              THEN [ k \in 1..Len(df_normalized) |->
                       IF df_normalized[k].id = video_id
                       THEN [ df_normalized[k] EXCEPT
                                !.kpt_x = Divide(@, MaxOf(x_values)),
                                !.kpt_y = Divide(@, MaxOf(y_values)) ]
                       ELSE df_normalized[k] ]
              ELSE df_normalized
    /\ video_ids' = Tail(video_ids)
    /\ UNCHANGED npc
    /\ UNCHANGED otherThanNorm

\* Line 54.
NormalizeReturn ==
    /\ npc = "loop"
    /\ Len(video_ids) = 0
    /\ npc' = "returned"
    /\ UNCHANGED << df_normalized, video_ids >>
    /\ UNCHANGED otherThanNorm

\* Lines 28-34.
InitNorm ==
    /\ df_normalized \in PixelTables
    /\ video_ids = Unique(df_normalized, 1)
    /\ npc = "loop"
    /\ IdleCore /\ IdleSelect /\ IdleAngle /\ IdleLoad /\ IdleMain /\ IdleExtract /\ IdlePipeline
    /\ IdleServer

NextNorm == NormalizeVideo \/ NormalizeReturn

SpecNorm == InitNorm /\ [][NextNorm]_vars

\* The fraction lies between 0 and 1.
InUnitRange(c) == 0 <= c.num /\ c.num <= c.den

\* C15: after normalize_coordinates every keypoint x and y of every video
\* lies in the 0-1 range.
C15_AllCoordinatesInUnitRange ==
    npc = "returned" =>
        \A k \in 1..Len(df_normalized) :
            InUnitRange(df_normalized[k].kpt_x) /\ InUnitRange(df_normalized[k].kpt_y)

\* ------------------------------------------------------------ main
\* main assigns df at lines 128 and 136, so df is a local name of main
\* everywhere in its body; line 125 reads it before either assignment.

\* Line 125: get_sequence(df, 'user_video') reads the unassigned local df
\* and Python raises UnboundLocalError; nothing of lines 128-265 runs.
MainGetUserSequence ==
    /\ mpc = "start"
    /\ mpc' = "raised"
    /\ UNCHANGED << csv_data, aligner_calls, selected >>
    /\ UNCHANGED otherThanMain

\* Lines 123-124: the run starts with the data file as it is on disk, no
\* alignment made and no reference selected.
InitMain ==
    /\ csv_data \in DataFrames
    /\ aligner_calls = [ r \in 1..3 |-> 0 ]
    /\ selected = << >>
    /\ mpc = "start"
    /\ IdleCore /\ IdleSelect /\ IdleAngle /\ IdleLoad /\ IdleNorm /\ IdleExtract /\ IdlePipeline
    /\ IdleServer

NextMain == MainGetUserSequence

SpecMain == InitMain /\ [][NextMain]_vars

\* The run is over.
RunEnded == mpc \in { "raised", "done" }

\* C16: in one analysis run the aligner is invoked exactly once for each of
\* the three references and the best reference is selected after them, for
\* the impact-frame comparison that follows.
C16_AlignerOncePerPairThenSelect ==
    RunEnded =>
        /\ \A r \in 1..3 : aligner_calls[r] = 1
        /\ Len(selected) = 1

\* ------------------------------------------------------ extract_keypoints
\* Line 10.
KEYPOINT_INDICES == << 12, 11, 14, 13, 16, 15, 24, 23 >>

\* The landmarks of a detected pose: the eight required ones and the nose.
LandmarkIndices == { 0 } \cup { KEYPOINT_INDICES[k] : k \in 1..Len(KEYPOINT_INDICES) }

\* Visibility in tenths: 0.5 is 5.
min_visibility == 5

\* A pose with the given visibility everywhere but on the hidden landmarks,
\* which have 0.4; the coordinates tell the landmarks and the poses apart.
Landmarks(shift, visibility, hidden) ==
    [ idx \in LandmarkIndices |->
        [ x |-> idx + shift, y |-> 100 + idx + shift,
          visibility |-> IF idx \in hidden THEN 4 ELSE visibility ] ]

\* results of pose.process: pose_landmarks is None (empty) or the landmarks.
PoseResults ==
    { [ pose_landmarks |-> << >> ],
      [ pose_landmarks |-> << Landmarks(0, 9, {}) >> ],
      [ pose_landmarks |-> << Landmarks(1, 5, {}) >> ],
      [ pose_landmarks |-> << Landmarks(0, 9, { 12 }) >> ],
      [ pose_landmarks |-> << Landmarks(0, 9, { 23 }) >> ],
      [ pose_landmarks |-> << Landmarks(0, 9, { 0 }) >> ] }

\* A frame of the video: what the pose model finds in it, and whether ESC
\* is pressed while it is shown.
VideoFrames == [ results : PoseResults, esc : BOOLEAN ]

Videos == SeqsOver(VideoFrames, MaxFrames)

\* Line 80.
HiddenOrBorderline(lm) == lm.visibility <= min_visibility
Hidden(lm) == lm.visibility < min_visibility

\* Lines 73-83: the loop over KEYPOINT_INDICES, from its k-th pass on.
RECURSIVE CollectKeypoints(_, _, _)
CollectKeypoints(landmarks, k, keypoints) ==
    IF k > Len(KEYPOINT_INDICES) THEN [ all_visible |-> TRUE, keypoints |-> keypoints ]
    ELSE LET lm == landmarks[KEYPOINT_INDICES[k]]
         IN  IF Hidden(lm) THEN [ all_visible |-> FALSE, keypoints |-> keypoints ]
             ELSE CollectKeypoints(landmarks, k + 1, keypoints \o << lm.x, lm.y >>)

\* Lines 55-113, one pass of the while loop on a frame that was read.
ProcessFrame ==
    /\ epc = "loop"
    /\ frames_processed < Len(video)
    /\ frames_processed' = frames_processed + 1
    /\ LET frame == video[frames_processed + 1]
           results == frame.results
       IN  /\ keypoints_data' =
                IF Len(results.pose_landmarks) > 0
                THEN LET collected == CollectKeypoints(results.pose_landmarks[1], 1, << >>)
                     IN  IF collected.all_visible
                         THEN Append(keypoints_data, << frame_count >> \o collected.keypoints)
                         ELSE keypoints_data
                ELSE keypoints_data
           /\ IF frame.esc
              THEN epc' = "after_loop" /\ frame_count' = frame_count
              ELSE epc' = epc /\ frame_count' = frame_count + 1
    /\ UNCHANGED << video, df_user >>
    /\ UNCHANGED otherThanExtract

\* Lines 56-58: the video is over, cap.read() returns ret = False.
ReadFails ==
    /\ epc = "loop"
    /\ frames_processed = Len(video)
    /\ epc' = "after_loop"
    /\ UNCHANGED << video, keypoints_data, frame_count, frames_processed, df_user >>
    /\ UNCHANGED otherThanExtract

\* Lines 128-136.
ReturnNone ==
    /\ epc = "after_loop"
    /\ Len(keypoints_data) = 0
    /\ epc' = "none"
    /\ UNCHANGED << video, keypoints_data, frame_count, frames_processed, df_user >>
    /\ UNCHANGED otherThanExtract

\* Lines 138-148: columns id, type_of_shot, frame_count and the 16 kpt ones.
SaveCsv ==
    /\ epc = "after_loop"
    /\ Len(keypoints_data) > 0
    /\ df_user' = [ k \in 1..Len(keypoints_data) |->
                      << "user_video", "smash" >> \o keypoints_data[k] ]
    /\ epc' = "saved"
    /\ UNCHANGED << video, keypoints_data, frame_count, frames_processed >>
    /\ UNCHANGED otherThanExtract

\* Lines 50-53.
InitExtract ==
    /\ video \in Videos
    /\ keypoints_data = << >>
    /\ frame_count = 0
    /\ frames_processed = 0
    /\ df_user = << >>
    /\ epc = "loop"
    /\ IdleCore /\ IdleSelect /\ IdleAngle /\ IdleLoad /\ IdleNorm /\ IdleMain /\ IdlePipeline
    /\ IdleServer

NextExtract == ProcessFrame \/ ReadFails \/ ReturnNone \/ SaveCsv

SpecExtract == InitExtract /\ [][NextExtract]_vars

\* ------------------------------------------- properties of the extractor
\* The frame with 0-based index f shows a pose whose eight required
\* keypoints all have visibility >= 0.5.
PoseFullyVisible(f) ==
    /\ Len(video[f + 1].results.pose_landmarks) > 0
    /\ \A k \in 1..Len(KEYPOINT_INDICES) :
           video[f + 1].results.pose_landmarks[1][KEYPOINT_INDICES[k]].visibility >= 5

\* x and y of the eight joints of frame f, joint by joint.
SixteenCoordinates(f) ==
    [ c \in 1..16 |->
        LET lm == video[f + 1].results.pose_landmarks[1][KEYPOINT_INDICES[(c + 1) \div 2]]
        IN  IF c % 2 = 1 THEN lm.x ELSE lm.y ]

FrameIndices == { keypoints_data[k][1] : k \in 1..Len(keypoints_data) }

scripts ==
    << "extract_input_data.py", "normalize_data.py", "compute_similarity.py", "kronos_ai.py" >>

\* What subprocess.run(["python", script], check=True) can do: the script
\* exits with 0, exits with another code, or python cannot be started.
RunOutcomes == { "exit_zero", "exit_nonzero", "not_found" }

\* The request's surroundings: whether the video can be saved, what each
\* script does when run, whether badminton_feedback.json exists afterwards
\* and whether it parses.
PipelineEnvs ==
    [ save_ok : BOOLEAN, run : [ 1..Len(scripts) -> RunOutcomes ],
      feedback_exists : BOOLEAN, feedback_parses : BOOLEAN ]

\* check=True: the call raises unless the script exited with 0.
RaisesOnlyNotFound(outcome) == outcome = "not_found"
Raises(outcome) == outcome # "exit_zero"

\* Lines 48-55.
SaveVideo ==
    /\ ppc = "save"
    /\ IF pipeline_env.save_ok
       THEN ppc' = "scripts" /\ UNCHANGED http_response
       ELSE /\ ppc' = "responded"
            /\ http_response' = << [ status_code |-> 500, detail |-> "COULD_NOT_SAVE" ] >>
    /\ UNCHANGED << pipeline_env, scripts_run >>
    /\ UNCHANGED otherThanPipeline

\* Lines 67-97, one pass of the loop with the handlers it may end in.
RunScript ==
    /\ ppc = "scripts"
    /\ Len(scripts_run) < Len(scripts)
    /\ LET k == Len(scripts_run) + 1
           outcome == pipeline_env.run[k]
       IN  /\ scripts_run' = Append(scripts_run, scripts[k])
           /\ IF Raises(outcome)
              THEN /\ ppc' = "responded"
                   /\ http_response' =
                        << [ status_code |-> 500,
                             detail |-> IF outcome = "exit_nonzero"
                                        THEN "ERROR_IN_SCRIPT" ELSE "SCRIPT_NOT_FOUND" ] >>
              ELSE UNCHANGED << ppc, http_response >>
    /\ UNCHANGED pipeline_env
    /\ UNCHANGED otherThanPipeline

\* Lines 100-119; an exception of json.load is answered with 500 by the
\* framework.
ReadFeedback ==
    /\ ppc = "scripts"
    /\ Len(scripts_run) = Len(scripts)
    /\ http_response' =
          IF ~pipeline_env.feedback_exists
          THEN << [ status_code |-> 500, detail |-> "FEEDBACK_NOT_GENERATED" ] >>
          ELSE IF ~pipeline_env.feedback_parses
          THEN << [ status_code |-> 500, detail |-> "INTERNAL_SERVER_ERROR" ] >>
          ELSE << [ status_code |-> 200, detail |-> "FEEDBACK_AND_GIF_URL" ] >>
    /\ ppc' = "responded"
    /\ UNCHANGED << pipeline_env, scripts_run >>
    /\ UNCHANGED otherThanPipeline

\* Lines 39-47.
InitPipeline ==
    /\ pipeline_env \in PipelineEnvs
    /\ scripts_run = << >>
    /\ http_response = << >>
    /\ ppc = "save"
    /\ IdleCore /\ IdleSelect /\ IdleAngle /\ IdleLoad /\ IdleNorm /\ IdleMain /\ IdleExtract
    /\ IdleServer

NextPipeline == SaveVideo \/ RunScript \/ ReadFeedback

SpecPipeline == InitPipeline /\ [][NextPipeline]_vars

\* C23: the scripts run in the order extract_input_data.py,
\* normalize_data.py, compute_similarity.py, kronos_ai.py; a script that
\* exits non-zero is the last one run and the request is answered 500; a
\* success response is given only after all four exited with 0 and the
\* feedback file exists.
C23_PipelineOrderAndStop ==
    /\ Len(scripts_run) <= 4
    /\ scripts_run = SubSeq(<< "extract_input_data.py", "normalize_data.py",
                               "compute_similarity.py", "kronos_ai.py" >>,
                            1, Len(scripts_run))
    /\ \A k \in 1..Len(scripts_run) :
           pipeline_env.run[k] = "exit_nonzero" =>
               /\ k = Len(scripts_run)
               /\ http_response # << >> /\ http_response[1].status_code = 500
    /\ (http_response # << >> /\ http_response[1].status_code = 200) =>
           /\ Len(scripts_run) = 4
           /\ \A k \in 1..4 : pipeline_env.run[k] = "exit_zero"
           /\ pipeline_env.feedback_exists

\* The third script exited non-zero: the fourth was not run, answer 500.
C23_Witness ==
    /\ ppc = "responded"
    /\ Len(scripts_run) = 3
    /\ pipeline_env.run[3] = "exit_nonzero"
    /\ pipeline_env.run[4] = "exit_zero"
    /\ http_response[1].status_code = 500

\* ---------------------------------------------------- src/main.py: server
\* Lines 36-41.
IDLE == "idle"
UPLOADING == "uploading"
PROCESSING == "processing"
COMPLETED == "completed"
FAILED == "failed"

ProcessingStatus == { IDLE, UPLOADING, PROCESSING, COMPLETED, FAILED }

\* Python's None in the error field.
None == "None"

\* str(e) of an exception raised while saving the upload, and of one raised
\* by a stage.
UploadError == "UPLOAD_ERROR"
StageError == "STAGE_ERROR"

\* Lines 78-93: the stages in the order process_video calls them.
StagesSwapped ==
    << "extract_input_data", "normalize_data", "compute_similarity", "smash_classifier",
       "generate_pro_gif", "kronos_ai" >>
Stages ==
    << "extract_input_data", "normalize_data", "smash_classifier", "compute_similarity",
       "generate_pro_gif", "kronos_ai" >>

Tasks == 1..MaxTasks

\* A slot no upload has used yet, and a task add_task has just queued.
UnusedTask == [ pc |-> "unused", called |-> << >>, exc |-> None ]
QueuedTask == [ pc |-> "queued", called |-> << >>, exc |-> None ]

\* The response of a handler: endpoint, HTTP status code, and the status,
\* error and body it carries; read tells whether a result file was looked at.
Response(endpoint, status_code, st, err, body, read) ==
    << [ endpoint |-> endpoint, status_code |-> status_code, status |-> st,
         error |-> err, body |-> body, read |-> read ] >>

\* Line 75, the first statement of a queued task; the task runs in a worker
\* thread, so every statement of it is a step of its own.
SetProcessing(t) ==
    /\ background_tasks[t].pc = "queued"
    /\ processing_state' = [ processing_state EXCEPT !.status = PROCESSING ]
    /\ background_tasks' = [ background_tasks EXCEPT ![t].pc = "clear_error" ]
    /\ UNCHANGED response
    /\ UNCHANGED << coreVars, otherThanServer >>

\* Line 76.
ClearError(t) ==
    /\ background_tasks[t].pc = "clear_error"
    /\ processing_state' = [ processing_state EXCEPT !.error = None ]
    /\ background_tasks' = [ background_tasks EXCEPT ![t].pc = "stages" ]
    /\ UNCHANGED response
    /\ UNCHANGED << coreVars, otherThanServer >>

\* Lines 78-94, one stage call: it returns, or it raises and control goes
\* to the except clause.
RunStage(t) ==
    /\ background_tasks[t].pc = "stages"
    /\ LET k == Len(background_tasks[t].called) + 1
       IN  \E outcome \in { "returned", "raised" } :
              background_tasks' = [ background_tasks EXCEPT
                  ![t].called = Append(@, Stages[k]),
                  ![t].exc = IF outcome = "raised" THEN StageError ELSE None,
                  ![t].pc = IF outcome = "raised" THEN "set_failed"
                            ELSE IF k = Len(Stages) THEN "set_completed" ELSE "stages" ]
    /\ UNCHANGED << processing_state, response >>
    /\ UNCHANGED << coreVars, otherThanServer >>

\* Lines 96-99.
SetCompleted(t) ==
    /\ background_tasks[t].pc = "set_completed"
    /\ processing_state' = [ processing_state EXCEPT !.status = COMPLETED ]
    /\ background_tasks' = [ background_tasks EXCEPT ![t].pc = "ended" ]
    /\ UNCHANGED response
    /\ UNCHANGED << coreVars, otherThanServer >>

\* Line 102.
SetFailed(t) ==
    /\ background_tasks[t].pc = "set_failed"
    /\ processing_state' = [ processing_state EXCEPT !.status = FAILED ]
    /\ background_tasks' = [ background_tasks EXCEPT ![t].pc = "set_error" ]
    /\ UNCHANGED response
    /\ UNCHANGED << coreVars, otherThanServer >>

\* Lines 103-108.
SetError(t) ==
    /\ background_tasks[t].pc = "set_error"
    /\ processing_state' = [ processing_state EXCEPT !.error = background_tasks[t].exc ]
    /\ background_tasks' = [ background_tasks EXCEPT ![t].pc = "ended" ]
    /\ UNCHANGED response
    /\ UNCHANGED << coreVars, otherThanServer >>

\* Lines 110-159; the handler is a coroutine without an await, so it runs
\* as one step of the event loop.
UploadVideo ==
    /\ \E saved \in BOOLEAN :
          IF saved
          THEN /\ \E t \in Tasks :
                     /\ background_tasks[t].pc = "unused"
                     /\ \A u \in 1..(t - 1) : background_tasks[u].pc # "unused"
                     /\ background_tasks' = [ background_tasks EXCEPT ![t] = QueuedTask ]
               /\ processing_state' = [ processing_state EXCEPT !.status = UPLOADING ]
               /\ response' = Response("upload", 200, "processing", None, "UPLOADED", FALSE)
          ELSE /\ processing_state' = [ status |-> FAILED, error |-> UploadError ]
               /\ response' = Response("upload", 500, None, UploadError, "UPLOAD_FAILED", FALSE)
               /\ UNCHANGED background_tasks
    /\ UNCHANGED << coreVars, otherThanServer >>

\* Lines 161-167.
GetStatus ==
    /\ response' = Response("status", 200, processing_state.status, processing_state.error,
                            "STATUS", FALSE)
    /\ UNCHANGED << processing_state, background_tasks >>
    /\ UNCHANGED << coreVars, otherThanServer >>

\* The result files on disk: which of them exist.
ResultFiles == [ tips : BOOLEAN, pro_gif : BOOLEAN, user_gif : BOOLEAN ]

\* Line 174.
NotCompletedOrFailed(st) == st # COMPLETED /\ st # FAILED
NotCompleted(st) == st # COMPLETED

\* Lines 174-215.
ResultsResponse(st, files) ==
    IF NotCompleted(st)
    THEN Response("results", 202, st, None, "PROCESSING_NOT_COMPLETE", FALSE)
    ELSE IF ~files.tips THEN Response("results", 404, None, None, "TIPS_NOT_FOUND", TRUE)
    ELSE IF ~files.pro_gif THEN Response("results", 404, None, None, "PRO_GIF_NOT_FOUND", TRUE)
    ELSE IF ~files.user_gif THEN Response("results", 404, None, None, "USER_GIF_NOT_FOUND", TRUE)
    ELSE Response("results", 200, "completed", None, "TIPS_AND_GIFS", TRUE)

\* The file system matters only once line 174 let the request through.
FilesLookedAt(st) ==
    IF NotCompleted(st) THEN { [ tips |-> FALSE, pro_gif |-> FALSE, user_gif |-> FALSE ] }
    ELSE ResultFiles

\* Lines 169-215.
GetResults ==
    /\ \E files \in FilesLookedAt(processing_state.status) :
          response' = ResultsResponse(processing_state.status, files)
    /\ UNCHANGED << processing_state, background_tasks >>
    /\ UNCHANGED << coreVars, otherThanServer >>

\* Lines 224-230.
ResetState ==
    /\ processing_state' = [ status |-> IDLE, error |-> None ]
    /\ response' = Response("reset", 200, None, None, "STATE_RESET", FALSE)
    /\ UNCHANGED background_tasks
    /\ UNCHANGED << coreVars, otherThanServer >>

\* Lines 43-47: the server has just started.
InitServer ==
    /\ processing_state = [ status |-> IDLE, error |-> None ]
    /\ background_tasks = [ t \in Tasks |-> UnusedTask ]
    /\ response = << >>
    /\ IdleCore /\ IdleSelect /\ IdleAngle /\ IdleLoad /\ IdleNorm /\ IdleMain /\ IdleExtract
    /\ IdlePipeline

NextServer ==
    \/ UploadVideo
    \/ GetStatus
    \/ GetResults
    \/ ResetState
    \/ \E t \in Tasks : SetProcessing(t)
    \/ \E t \in Tasks : ClearError(t)
    \/ \E t \in Tasks : RunStage(t)
    \/ \E t \in Tasks : SetCompleted(t)
    \/ \E t \in Tasks : SetFailed(t)
    \/ \E t \in Tasks : SetError(t)

SpecServer == InitServer /\ [][NextServer]_vars

\* Lines 66-108: one call of process_video, entered in any state the requests
\* before it may have left, with no other writer of processing_state; the
\* client polls /status meanwhile.
InitProcess ==
    /\ processing_state \in [ status : ProcessingStatus, error : { None, UploadError, StageError } ]
    /\ background_tasks = [ t \in Tasks |-> IF t = 1 THEN QueuedTask ELSE UnusedTask ]
    /\ response = << >>
    /\ IdleCore /\ IdleSelect /\ IdleAngle /\ IdleLoad /\ IdleNorm /\ IdleMain /\ IdleExtract
    /\ IdlePipeline

NextProcess ==
    \/ GetStatus
    \/ \E t \in Tasks : SetProcessing(t)
    \/ \E t \in Tasks : ClearError(t)
    \/ \E t \in Tasks : RunStage(t)
    \/ \E t \in Tasks : SetCompleted(t)
    \/ \E t \in Tasks : SetFailed(t)
    \/ \E t \in Tasks : SetError(t)

SpecProcess == InitProcess /\ [][NextProcess]_vars

\* ------------------------------------------ properties of process_video
\* C21: a call of process_video first sets PROCESSING and clears error, then
\* calls extract_input_data, normalize_data, smash_classifier,
\* compute_similarity, generate_pro_gif, kronos_ai in this order; after the
\* first exception no further stage is called; the call ends with status
\* COMPLETED exactly when all six returned, and otherwise with status FAILED
\* and the exception message in error, never with UPLOADING or PROCESSING.
C21_ProcessVideoEndsCompletedOrFailed ==
    \A t \in Tasks :
        LET task == background_tasks[t]
        IN  /\ task.called =
                 SubSeq(<< "extract_input_data", "normalize_data", "smash_classifier",
                           "compute_similarity", "generate_pro_gif", "kronos_ai" >>,
                        1, Len(task.called))
            /\ task.pc = "stages" =>
                 /\ processing_state = [ status |-> PROCESSING, error |-> None ]
                 /\ Len(task.called) < 6
            /\ task.exc # None => task.pc \in { "set_failed", "set_error", "ended" }
            /\ task.pc = "ended" =>
                 /\ processing_state.status \in { COMPLETED, FAILED }
                 /\ processing_state.status = COMPLETED <=>
                        (Len(task.called) = 6 /\ task.exc = None)
                 /\ processing_state.status = COMPLETED => processing_state.error = None
                 /\ processing_state.status = FAILED =>
                        (task.exc # None /\ processing_state.error = task.exc)

\* The fourth stage raised: the call ended FAILED with the message, the last
\* two stages not called.
C21_Witness ==
    /\ background_tasks[1].pc = "ended"
    /\ background_tasks[1].called =
          << "extract_input_data", "normalize_data", "smash_classifier", "compute_similarity" >>
    /\ processing_state = [ status |-> FAILED, error |-> StageError ]

\* ------------------------------------------ properties of the server
\* C22: GET /results answers 202 "Processing not complete yet", without
\* looking at a result file, in every status other than COMPLETED, and gives
\* the results payload only when the status is COMPLETED.
C22_ResultsOnlyWhenCompleted ==
    [][GetResults =>
          /\ processing_state.status # "completed" =>
                 /\ response'[1].status_code = 202
                 /\ response'[1].body = "PROCESSING_NOT_COMPLETE"
                 /\ response'[1].status = processing_state.status
                 /\ ~response'[1].read
          /\ response'[1].body = "TIPS_AND_GIFS" =>
                 /\ processing_state.status = "completed"
                 /\ response'[1].status_code = 200
                 /\ response'[1].status = "completed"]_vars

\* /results was asked after a failed run and answered 202.
C22_Witness ==
    /\ response # << >>
    /\ response[1].endpoint = "results"
    /\ response[1].status_code = 202
    /\ response[1].status = "failed"
    /\ processing_state.status = "failed"
    /\ \E t \in Tasks : background_tasks[t].pc = "ended"

\* The task is between its first statement and its last.
Running(t) == background_tasks[t].pc \notin { "unused", "queued", "ended" }

C26_ErrorOnlyWhenFailed ==
    /\ processing_state.error # "None" => processing_state.status = "failed"
    /\ (response # << >> /\ response[1].endpoint = "status" /\ response[1].status # "failed")
           => response[1].error = "None"

====
